---------------------------- MODULE Spec2Model ----------------------------
(***************************************************************************)
(* Model of keylime/tpm/tpm_main.py: the quote-acceptance pipeline of      *)
(* class Tpm (check_quote, check_quote_timing, check_pcrs).                *)
(*                                                                         *)
(* A check_quote call is a sequence of steps of one caller thread; the     *)
(* steps are cut where the call reads or writes the agent's stored clock   *)
(* state (AgentAttestState.get_tpm_clockinfo / set_tpm_clockinfo), the     *)
(* only state shared between calls.                                        *)
(***************************************************************************)
EXTENDS Integers, Sequences, FiniteSets, TLC

\* ------------------------------------------------------------------ bounds
MaxClock == 2       \* clock values of a quote are 0..MaxClock
MaxCount == 1       \* resetcount / restartcount of a quote are 0..MaxCount

Threads == {"t1", "t2"}

\* --------------------------------------------------------------- constants
TPM_DATA_PCR == 16
IMA_PCR == 10
MEASUREDBOOT_PCRS == {0, 1}

\* ---------------------------------------------------------- Failure model
\* keylime.failure.Failure: a set of events; truthiness is "has an event",
\* merge is union (written \cup).  An event carries its component, its id, a context and
\* the marker passed as third argument of add_event.
NoContext == [got |-> <<>>, expected |-> {}, data |-> {}]

Event(component, event_id, context, fatal) ==
    [component |-> component, event_id |-> event_id,
     context |-> context, fatal |-> fatal]

AddEvent(failure, component, event_id, context, fatal) ==
    failure \cup {Event(component, event_id, context, fatal)}

HasFatal(failure) == \E e \in failure : e.fatal

\* event ids: f"invalid_pcr_{n}" is <<"invalid_pcr", n>>
Id(name) == <<name>>
IdN(name, n) == <<name, n>>

\* ------------------------------------------------------------- ClockInfo
\* TPMClockInfo: clock, resetcount, restartcount, safe
ClockInfos ==
    [clock : 0..MaxClock, resetcount : 0..MaxCount,
     restartcount : 0..MaxCount, safe : {0, 1}]

\* the state of an agent that has not sent a quote yet
ZeroClockInfo == [clock |-> 0, resetcount |-> 0, restartcount |-> 0, safe |-> 1]

NoError == "None"

\* check_quote_timing after the clock info was read from the quote:
\* returns the error (or NoError) and the optional new TPMClockInfo
\* (the empty set is None).
ClockCompare_NoRestartCheck(previous_clockinfo, tentative) ==
    LET resetdiff == tentative.resetcount - previous_clockinfo.resetcount
        restartdiff == tentative.restartcount - previous_clockinfo.restartcount
    IN  IF resetdiff < 0
        THEN [err |-> "resetCount value decreased", cur |-> {}]
        ELSE IF tentative.safe # 1
        THEN [err |-> "clock safe flag is disabled", cur |-> {}]
        ELSE IF ~(resetdiff # 0 /\ restartdiff # 0)
        THEN IF tentative.clock - previous_clockinfo.clock <= 0
             THEN [err |-> "clock did not increase", cur |-> {}]
             ELSE [err |-> NoError, cur |-> {tentative}]
        ELSE [err |-> NoError, cur |-> {}]

ClockCompare_NoSafeCheck(previous_clockinfo, tentative) ==
    LET resetdiff == tentative.resetcount - previous_clockinfo.resetcount
        restartdiff == tentative.restartcount - previous_clockinfo.restartcount
    IN  IF resetdiff < 0
        THEN [err |-> "resetCount value decreased", cur |-> {}]
        ELSE IF restartdiff < 0
        THEN [err |-> "restartCount value decreased", cur |-> {}]
        ELSE IF ~(resetdiff # 0 /\ restartdiff # 0)
        THEN IF tentative.clock - previous_clockinfo.clock <= 0
             THEN [err |-> "clock did not increase", cur |-> {}]
             ELSE [err |-> NoError, cur |-> {tentative}]
        ELSE [err |-> NoError, cur |-> {}]

ClockCompare_NonStrict(previous_clockinfo, tentative) ==
    LET resetdiff == tentative.resetcount - previous_clockinfo.resetcount
        restartdiff == tentative.restartcount - previous_clockinfo.restartcount
    IN  IF resetdiff < 0
        THEN [err |-> "resetCount value decreased", cur |-> {}]
        ELSE IF restartdiff < 0
        THEN [err |-> "restartCount value decreased", cur |-> {}]
        ELSE IF tentative.safe # 1
        THEN [err |-> "clock safe flag is disabled", cur |-> {}]
        ELSE IF ~(resetdiff # 0 /\ restartdiff # 0)
        THEN IF tentative.clock - previous_clockinfo.clock < 0
             THEN [err |-> "clock did not increase", cur |-> {}]
             ELSE [err |-> NoError, cur |-> {tentative}]
        ELSE [err |-> NoError, cur |-> {}]

ClockCompare(previous_clockinfo, tentative) ==
    LET resetdiff == tentative.resetcount - previous_clockinfo.resetcount
        restartdiff == tentative.restartcount - previous_clockinfo.restartcount
    IN  IF resetdiff < 0
        THEN [err |-> "resetCount value decreased", cur |-> {}]
        ELSE IF restartdiff < 0
        THEN [err |-> "restartCount value decreased", cur |-> {}]
        ELSE IF tentative.safe # 1
        THEN [err |-> "clock safe flag is disabled", cur |-> {}]
        \* "if not (resetdiff and restartdiff)": an int is true when non-zero
        ELSE IF ~(resetdiff # 0 /\ restartdiff # 0)
        THEN IF tentative.clock - previous_clockinfo.clock <= 0
             THEN [err |-> "clock did not increase", cur |-> {}]
             ELSE [err |-> NoError, cur |-> {tentative}]
        ELSE [err |-> NoError, cur |-> {}]

\* ------------------------------------------------------------ the quote
\* A quote string 'r<quote>:<sig>:<pcrs>' is its type marker, its number of
\* colon-separated segments and what the external decoders make of the
\* segments: tpm_util.checkquote raises (sig_err) or returns the PCR map,
\* get_tpms_attest_clock_info raises (~attest_ok) or returns clock_info.
MalformedQuote(quote) == quote.marker # "r" \/ quote.ntokens < 3

\* _tpm2_clock_info_from_quote: the clock info dict, {} when the decoder
\* raised.  (It raises itself on a malformed quote; check_quote never gets
\* there with one, _tpm2_checkquote raised before.)
ClockInfoFromQuote(quote) ==
    IF quote.attest_ok THEN {quote.clock_info} ELSE {}

CheckQuoteTiming(previous_clockinfo, quote) ==
    LET clock_info_dict == ClockInfoFromQuote(quote)
    IN  IF clock_info_dict = {}
        THEN [err |-> "_tpm2_clock_info_from_quote failed", cur |-> {}]
        ELSE ClockCompare(previous_clockinfo,
                          CHOOSE c \in clock_info_dict : TRUE)


\* ------------------------------------------------------- hex conversions
HexDigits == <<"0", "1", "2", "3", "4", "5", "6", "7",
               "8", "9", "a", "b", "c", "d", "e", "f">>

\* hex(n)[2:] for n >= 0
RECURSIVE HexOf(_)
HexOf(n) ==
    IF n < 16 THEN <<HexDigits[n + 1]>>
    ELSE Append(HexOf(n \div 16), HexDigits[(n % 16) + 1])

\* s.lstrip("0")
RECURSIVE LStripZero(_)
LStripZero(s) ==
    IF s # <<>> /\ Head(s) = "0" THEN LStripZero(Tail(s)) ELSE s

\* Digests are hex strings, modelled as sequences of hex characters.
HexAA == <<"a", "a">>
HexBB == <<"b", "b">>

\* sim_extend: H(start | H(data)) as a hex string; the hash is a table that
\* is injective on the data values of the model.
SimExtend(data) ==
    CASE data = "nonce123" -> HexAA
      [] OTHER -> HexBB

\* ------------------------------------------------------------- check_pcrs
\* int(k) for the keys of a policy document
KeyInt(k) ==
    CASE k = "0" -> 0
      [] k = "1" -> 1
      [] k = "10" -> 10
      [] k = "16" -> 16
      [] k = "17" -> 17
      [] OTHER -> 18

\* the policy without its "mask" key, keys coerced to integers
PcrAllowlist(tpm_policy) ==
    LET keys == DOMAIN tpm_policy \ {"mask"}
    IN  [n \in {KeyInt(k) : k \in keys} |->
            tpm_policy[CHOOSE k \in keys : KeyInt(k) = n]]

\* truthiness of an Optional[str] ({} is None, {""} the empty string)
Truthy(opt) == opt # {} /\ opt # {""}

PCR_VALIDATION == "PCR_VALIDATION"
MEASURED_BOOT == "MEASURED_BOOT"
QUOTE_VALIDATION == "QUOTE_VALIDATION"
IMA == "IMA"

AllowlistContext(got, expected) == [got |-> got, expected |-> expected, data |-> {}]

DataPcrStep_NoCompare(pcrs_dict, data) ==
    IF TPM_DATA_PCR \in DOMAIN pcrs_dict /\ data # {}
    THEN [events |-> {}, claimed |-> {TPM_DATA_PCR}]
    ELSE [events |-> {Event(PCR_VALIDATION, IdN("missing_pcr", TPM_DATA_PCR),
                            NoContext, TRUE)},
          claimed |-> {}]

\* check_pcrs, "Validate data PCR": the events added and the indices added
\* to pcrs_in_quote.  data is an Optional[str].
DataPcrStep(pcrs_dict, data) ==
    IF TPM_DATA_PCR \in DOMAIN pcrs_dict /\ data # {}
    THEN LET expectedval == SimExtend(CHOOSE d \in data : TRUE)
         IN  [events |->
                 IF expectedval # pcrs_dict[TPM_DATA_PCR]
                 THEN {Event(PCR_VALIDATION, IdN("invalid_pcr", TPM_DATA_PCR),
                             AllowlistContext(pcrs_dict[TPM_DATA_PCR], {expectedval}),
                             TRUE)}
                 ELSE {},
              claimed |-> {TPM_DATA_PCR}]
    ELSE [events |-> {Event(PCR_VALIDATION, IdN("missing_pcr", TPM_DATA_PCR),
                            NoContext, TRUE)},
          claimed |-> {}]

\* check_pcrs, "Check for ima PCR": the events added, the indices added to
\* pcrs_in_quote and whether the IMA evaluator (__check_ima) was called;
\* ima_failure is what the evaluator returns.
ImaPcrStep(pcrs_dict, ima_measurement_list, ima_failure) ==
    IF IMA_PCR \notin DOMAIN pcrs_dict
    THEN [events |-> {}, claimed |-> {}, called |-> FALSE]
    ELSE IF ima_measurement_list = {}
    THEN [events |-> {Event(PCR_VALIDATION, IdN("unused_pcr", IMA_PCR),
                            NoContext, TRUE)},
          claimed |-> {IMA_PCR}, called |-> FALSE]
    ELSE [events |-> ima_failure, claimed |-> {IMA_PCR}, called |-> TRUE]

MissingPcrs_AllAllowlist(pcr_allowlist, pcrs_in_quote) ==
    DOMAIN pcr_allowlist

MissingPcrs_IgnoreQuote(pcr_allowlist, pcrs_in_quote) ==
    IF pcrs_in_quote # {} THEN DOMAIN pcr_allowlist \ pcrs_in_quote ELSE {}

\* "missing = set(pcr_allowlist.keys()) - pcrs_in_quote"
MissingPcrs(pcr_allowlist, pcrs_in_quote) ==
    DOMAIN pcr_allowlist \ pcrs_in_quote

\* The allowlist is consulted only for an index whose log value matched.
MbPcrStep_OneCheck(pcrs_dict, pcr_allowlist, mb_failure, mb_refstate_data, mb_measurement_list, mb_pcrs_hashes) ==
    LET mb_nums ==
            IF mb_failure = {} /\ mb_refstate_data
            THEN MEASUREDBOOT_PCRS \cap DOMAIN pcrs_dict ELSE {}
        mb_claimed == IF Truthy(mb_measurement_list) THEN mb_nums ELSE {}
        val_from_log_hex(n) ==
            HexOf(IF n \in DOMAIN mb_pcrs_hashes THEN mb_pcrs_hashes[n] ELSE 0)
        mismatched ==
            {m \in mb_claimed : LStripZero(val_from_log_hex(m)) # LStripZero(pcrs_dict[m])}
    IN  [events |->
            {Event(PCR_VALIDATION, IdN("unused_pcr", n), NoContext, TRUE) :
                n \in mb_nums \ mb_claimed}
            \cup {Event(PCR_VALIDATION, IdN("invalid_pcr", n),
                        AllowlistContext(pcrs_dict[n], pcr_allowlist[n]), TRUE) :
                     n \in {m \in (mb_claimed \ mismatched) \cap DOMAIN pcr_allowlist :
                              pcrs_dict[m] \notin pcr_allowlist[m]}},
         mb_pcr_failure |->
            {Event(MEASURED_BOOT, IdN("invalid_pcr", n),
                   AllowlistContext(pcrs_dict[n], {val_from_log_hex(n)}), TRUE) :
                n \in mismatched},
         claimed |-> mb_claimed]

\* check_pcrs, the measured boot PCRs: handled only if the parsing worked;
\* `events` go to the report directly, mb_pcr_failure is merged after the
\* loop.
MbPcrStep(pcrs_dict, pcr_allowlist, mb_failure, mb_refstate_data, mb_measurement_list, mb_pcrs_hashes) ==
    LET mb_nums ==
            IF mb_failure = {} /\ mb_refstate_data
            THEN MEASUREDBOOT_PCRS \cap DOMAIN pcrs_dict ELSE {}
        mb_claimed == IF Truthy(mb_measurement_list) THEN mb_nums ELSE {}
        val_from_log_hex(n) ==
            HexOf(IF n \in DOMAIN mb_pcrs_hashes THEN mb_pcrs_hashes[n] ELSE 0)
    IN  [events |->
            {Event(PCR_VALIDATION, IdN("unused_pcr", n), NoContext, TRUE) :
                n \in mb_nums \ mb_claimed}
            \cup {Event(PCR_VALIDATION, IdN("invalid_pcr", n),
                        AllowlistContext(pcrs_dict[n], pcr_allowlist[n]), TRUE) :
                     n \in {m \in mb_claimed \cap DOMAIN pcr_allowlist :
                              pcrs_dict[m] \notin pcr_allowlist[m]}},
         mb_pcr_failure |->
            {Event(MEASURED_BOOT, IdN("invalid_pcr", n),
                   AllowlistContext(pcrs_dict[n], {val_from_log_hex(n)}), TRUE) :
                n \in {m \in mb_claimed :
                         LStripZero(val_from_log_hex(m)) # LStripZero(pcrs_dict[m])}},
         claimed |-> mb_claimed]

\* check_pcrs after the data PCR step.  in: tpm_policy, pcrs_dict, data,
\* ima_measurement_list, mb_measurement_list (Optional[str]);
\* mb_refstate_data (truthiness of what measured_boot.get_policy resolved);
\* mb (what parse_mb_bootlog returned: pcrs_hashes, failure); ima_failure and
\* mb_policy_failure (what the external IMA and measured-boot policy
\* evaluators return when called).  Returns the report, the claimed indices
\* (pcrs_in_quote), which external evaluators were called and the index set
\* the measured-boot policy evaluator was given.
CheckPcrsRest(in, data_step) ==
    LET pcrs_dict == in.pcrs_dict
        pcr_allowlist == PcrAllowlist(in.tpm_policy)
        mb_failure == in.mb.failure
        pcr_nums == DOMAIN pcrs_dict
        \* Check for ima PCR
        ima_step == ImaPcrStep(pcrs_dict, in.ima_measurement_list, in.ima_failure)
        \* measured boot PCRs
        mb_step == MbPcrStep(pcrs_dict, pcr_allowlist, mb_failure, in.mb_refstate_data,
                             in.mb_measurement_list, in.mb.pcrs_hashes)
        claimed_3 == data_step.claimed \cup ima_step.claimed \cup mb_step.claimed
        \* Check the remaining non validated PCRs
        residual == (pcr_nums \ claimed_3) \cap DOMAIN pcr_allowlist
        residual_events ==
            {Event(PCR_VALIDATION, IdN("invalid_pcr", n),
                   AllowlistContext(pcrs_dict[n], pcr_allowlist[n]), TRUE) :
                n \in {m \in residual : pcrs_dict[m] \notin pcr_allowlist[m]}}
        pcrs_in_quote == claimed_3 \cup residual
        missing == MissingPcrs(pcr_allowlist, pcrs_in_quote)
        missing_events ==
            IF Cardinality(missing) > 0
            THEN {Event(PCR_VALIDATION, Id("missing_pcrs"),
                        [got |-> <<>>, expected |-> {}, data |-> missing], TRUE)}
            ELSE {}
        mb_policy_called == mb_failure = {} /\ in.mb_refstate_data
        mb_policy_events == IF mb_policy_called THEN in.mb_policy_failure ELSE {}
    IN  [failure |-> mb_failure \cup data_step.events \cup ima_step.events
                     \cup mb_step.events \cup mb_step.mb_pcr_failure
                     \cup residual_events
                     \cup missing_events \cup mb_policy_events,
         pcrs_in_quote |-> pcrs_in_quote,
         ima_called |-> ima_step.called,
         mb_policy_called |-> mb_policy_called,
         mb_policy_pcrs |-> IF mb_policy_called THEN {pcrs_in_quote} ELSE {}]

\* check_pcrs returns as soon as the data PCR step recorded an event.
CheckPcrs_ShortCircuit(in) ==
    LET data_step == DataPcrStep(in.pcrs_dict, in.data)
    IN  IF data_step.events # {}
        THEN [failure |-> in.mb.failure \cup data_step.events,
              pcrs_in_quote |-> data_step.claimed,
              ima_called |-> FALSE,
              mb_policy_called |-> FALSE,
              mb_policy_pcrs |-> {}]
        ELSE CheckPcrsRest(in, data_step)

\* check_pcrs
CheckPcrs(in) == CheckPcrsRest(in, DataPcrStep(in.pcrs_dict, in.data))


\* ------------------------------------------------------ inputs of a call
\* hash_alg: Optional[Hash]
HashAlgs == {{}, {"sha256"}}

QuotePcrDicts ==
    UNION {[S -> {HexAA, HexBB}] : S \in SUBSET {TPM_DATA_PCR, 17}}

EmptyPcrs == [n \in {} |-> HexAA]

Quotes ==
    {q \in [marker : {"r", "x"}, ntokens : {2, 3}, sig_err : BOOLEAN,
            pcrs : QuotePcrDicts, attest_ok : BOOLEAN, clock_info : ClockInfos] :
        /\ (MalformedQuote(q) \/ q.sig_err) =>
              q.pcrs = EmptyPcrs /\ q.attest_ok /\ q.clock_info = ZeroClockInfo
        /\ MalformedQuote(q) => ~q.sig_err /\ (q.marker = "r" \/ q.ntokens = 3)
        /\ ~q.attest_ok => q.clock_info = ZeroClockInfo}

NoQuote ==
    [marker |-> "r", ntokens |-> 3, sig_err |-> FALSE, pcrs |-> EmptyPcrs,
     attest_ok |-> TRUE, clock_info |-> ZeroClockInfo]

Policies ==
    {[k \in {} |-> {}],
     [k \in {"16"} |-> {HexAA}],
     [k \in {"mask", "17"} |-> IF k = "mask" THEN {} ELSE {HexAA}],
     [k \in {"16", "17"} |-> {HexAA, HexBB}]}

ImaFailures == {{}, {Event(IMA, Id("ima_failure"), NoContext, TRUE)}}

\* what parse_mb_bootlog returns without a log: no hashes and no event
NoLog == [pcrs_hashes |-> [n \in {} |-> 0], failure |-> {}]

\* the inputs of check_pcrs other than the quoted PCRs, as check_quote
\* passes them on
PcrsArgs ==
    [tpm_policy : Policies, data : {{}, {"nonce123"}},
     ima_measurement_list : {{}}, ima_failure : {{}},
     mb_measurement_list : {{}}, mb_refstate_data : BOOLEAN,
     mb : {NoLog}, mb_policy_failure : ImaFailures]

WithPcrs(args, pcrs_dict) ==
    [tpm_policy |-> args.tpm_policy, pcrs_dict |-> pcrs_dict, data |-> args.data,
     ima_measurement_list |-> args.ima_measurement_list,
     ima_failure |-> args.ima_failure,
     mb_measurement_list |-> args.mb_measurement_list,
     mb_refstate_data |-> args.mb_refstate_data,
     mb |-> args.mb, mb_policy_failure |-> args.mb_policy_failure]

\* ------------------------------------------------------------------ state
VARIABLES
    stored,      \* the agent's stored TPMClockInfo (AgentAttestState)
    pc,          \* where each thread's check_quote call is
    hash_alg,    \* argument hash_alg of the call
    quote,       \* argument quote of the call
    pcrs_dict,   \* local pcrs_dict (what _tpm2_checkquote returned)
    prev,        \* the previous_clockinfo the call read from the agent state
    timing,      \* (clock_failure, current_clock_info) of the call
    failure,     \* the Failure the call builds and returns
    pcrs_args,   \* the arguments check_pcrs was called with
    trace,       \* history: the collaborators the call has invoked, in order
    entry,       \* history: the stored clock state when the call began
    passed,      \* history: the ClockInfo of the last returned call's quote
                 \* that passed the clock check ({} when there is none)
    input,       \* the arguments of the routine a specification applies
    output,      \* what that routine returned ({} before it ran)
    tpmutilLock, \* the holder of Tpm.tpmutilLock ({} when free)
    run          \* where each thread's external command invocation is

vars == <<stored, pc, hash_alg, quote, pcrs_dict, prev, timing, failure,
          pcrs_args, trace, entry, passed, input, output, tpmutilLock, run>>

\* the variables check_quote does not touch
others == <<input, output, tpmutilLock, run>>

\* the variables of check_quote
quote_vars == <<stored, pc, hash_alg, quote, pcrs_dict, prev, timing, failure,
                pcrs_args, trace, entry, passed>>

NoTiming == [err |-> NoError, cur |-> {}]
NoArgs == WithPcrs(CHOOSE a \in PcrsArgs : TRUE, EmptyPcrs)

\* no check_quote call is in progress, no quote was accepted yet
QuoteInit ==
    /\ stored = ZeroClockInfo
    /\ pc = [t \in Threads |-> "idle"]
    /\ hash_alg = [t \in Threads |-> {}]
    /\ quote = [t \in Threads |-> NoQuote]
    /\ pcrs_dict = [t \in Threads |-> EmptyPcrs]
    /\ prev = [t \in Threads |-> ZeroClockInfo]
    /\ timing = [t \in Threads |-> NoTiming]
    /\ failure = [t \in Threads |-> {}]
    /\ pcrs_args = [t \in Threads |-> NoArgs]
    /\ trace = [t \in Threads |-> <<>>]
    /\ entry = [t \in Threads |-> ZeroClockInfo]
    /\ passed = {}

NoRun == [op |-> "none", at |-> "idle"]

\* no routine was applied, no external command is running
OthersInit ==
    /\ input = {}
    /\ output = {}
    /\ tpmutilLock = {}
    /\ run = [t \in Threads |-> NoRun]

Init == QuoteInit /\ OthersInit

\* the marker check_quote passes as third argument of its add_event calls
QuoteEventMarker == FALSE

\* check_quote up to the hash_alg check.  The caller serializes the calls
\* for one agent: a call begins when no other call is in progress.
Call(t) ==
    /\ pc[t] = "idle"
    /\ \A u \in Threads : pc[u] = "idle"
    /\ \E h \in HashAlgs, q \in Quotes :
          /\ hash_alg' = [hash_alg EXCEPT ![t] = h]
          /\ quote' = [quote EXCEPT ![t] = q]
          /\ IF h = {}
             THEN /\ failure' = [failure EXCEPT ![t] =
                        AddEvent({}, QUOTE_VALIDATION, Id("hash_alg_missing"),
                                 NoContext, QuoteEventMarker)]
                  /\ pc' = [pc EXCEPT ![t] = "done"]
             ELSE /\ failure' = [failure EXCEPT ![t] = {}]
                  /\ pc' = [pc EXCEPT ![t] = "checkquote"]
    /\ entry' = [entry EXCEPT ![t] = stored]
    /\ trace' = [trace EXCEPT ![t] = <<>>]
    /\ UNCHANGED <<stored, pcrs_dict, prev, timing, pcrs_args>>
    /\ UNCHANGED passed
    /\ UNCHANGED others

CheckQuote_ContinueOnError(t) ==
    /\ pc[t] = "checkquote"
    /\ IF MalformedQuote(quote[t])
       THEN /\ pc' = [pc EXCEPT ![t] = "raised"]
            /\ trace' = [trace EXCEPT ![t] = Append(@, "checkquote_raised")]
            /\ UNCHANGED <<failure, pcrs_dict>>
       ELSE IF quote[t].sig_err
       THEN /\ failure' = [failure EXCEPT ![t] =
                  AddEvent(@, QUOTE_VALIDATION, Id("quote_validation"),
                           NoContext, QuoteEventMarker)]
            /\ pc' = [pc EXCEPT ![t] = "timing"]
            /\ trace' = [trace EXCEPT ![t] = Append(@, "checkquote_err")]
            /\ UNCHANGED pcrs_dict
       ELSE /\ pcrs_dict' = [pcrs_dict EXCEPT ![t] = quote[t].pcrs]
            /\ pc' = [pc EXCEPT ![t] = "timing"]
            /\ trace' = [trace EXCEPT ![t] = Append(@, "checkquote_ok")]
            /\ UNCHANGED failure
    /\ UNCHANGED <<stored, hash_alg, quote, prev, timing, pcrs_args, entry>>
    /\ UNCHANGED passed
    /\ UNCHANGED others

\* _tpm2_checkquote and the test of its error
CheckQuote(t) ==
    /\ pc[t] = "checkquote"
    /\ IF MalformedQuote(quote[t])
       THEN \* "raise Exception": the call ends without a Failure
            /\ pc' = [pc EXCEPT ![t] = "raised"]
            /\ trace' = [trace EXCEPT ![t] = Append(@, "checkquote_raised")]
            /\ UNCHANGED <<failure, pcrs_dict>>
       ELSE IF quote[t].sig_err
       THEN /\ failure' = [failure EXCEPT ![t] =
                  AddEvent(@, QUOTE_VALIDATION, Id("quote_validation"),
                           NoContext, QuoteEventMarker)]
            /\ pc' = [pc EXCEPT ![t] = "done"]
            /\ trace' = [trace EXCEPT ![t] = Append(@, "checkquote_err")]
            /\ UNCHANGED pcrs_dict
       ELSE /\ pcrs_dict' = [pcrs_dict EXCEPT ![t] = quote[t].pcrs]
            /\ pc' = [pc EXCEPT ![t] = "timing"]
            /\ trace' = [trace EXCEPT ![t] = Append(@, "checkquote_ok")]
            /\ UNCHANGED failure
    /\ UNCHANGED <<stored, hash_alg, quote, prev, timing, pcrs_args, entry>>
    /\ UNCHANGED passed
    /\ UNCHANGED others

Timing_StoreFirst(t) ==
    /\ pc[t] = "timing"
    /\ LET r == CheckQuoteTiming(stored, quote[t])
       IN  /\ prev' = [prev EXCEPT ![t] = stored]
           /\ timing' = [timing EXCEPT ![t] = r]
           /\ stored' = IF quote[t].attest_ok THEN quote[t].clock_info ELSE stored
           /\ IF r.err # NoError
              THEN /\ failure' = [failure EXCEPT ![t] =
                         AddEvent(@, QUOTE_VALIDATION, Id("quote_validation"),
                                  NoContext, QuoteEventMarker)]
                   /\ pc' = [pc EXCEPT ![t] = "done"]
                   /\ trace' = [trace EXCEPT ![t] = Append(@, "timing_err")]
              ELSE /\ pc' = [pc EXCEPT ![t] = "store"]
                   /\ trace' = [trace EXCEPT ![t] = Append(@, "timing_ok")]
                   /\ UNCHANGED failure
    /\ UNCHANGED <<hash_alg, quote, pcrs_dict, pcrs_args, entry>>
    /\ UNCHANGED passed
    /\ UNCHANGED others

\* check_quote_timing on the stored clock state, and the test of its error
Timing(t) ==
    /\ pc[t] = "timing"
    /\ LET r == CheckQuoteTiming(stored, quote[t])
       IN  /\ prev' = [prev EXCEPT ![t] = stored]
           /\ timing' = [timing EXCEPT ![t] = r]
           /\ IF r.err # NoError
              THEN /\ failure' = [failure EXCEPT ![t] =
                         AddEvent(@, QUOTE_VALIDATION, Id("quote_validation"),
                                  NoContext, QuoteEventMarker)]
                   /\ pc' = [pc EXCEPT ![t] = "done"]
                   /\ trace' = [trace EXCEPT ![t] = Append(@, "timing_err")]
              ELSE /\ pc' = [pc EXCEPT ![t] = "store"]
                   /\ trace' = [trace EXCEPT ![t] = Append(@, "timing_ok")]
                   /\ UNCHANGED failure
    /\ UNCHANGED <<stored, hash_alg, quote, pcrs_dict, pcrs_args, entry>>
    /\ UNCHANGED passed
    /\ UNCHANGED others

\* the quote's ClockInfo is stored whenever the clock check passed
Store_Tentative(t) ==
    /\ pc[t] = "store"
    /\ stored' = quote[t].clock_info
    /\ pc' = [pc EXCEPT ![t] = "pcrs"]
    /\ UNCHANGED <<hash_alg, quote, pcrs_dict, prev, timing, failure,
                   pcrs_args, trace, entry>>
    /\ UNCHANGED passed
    /\ UNCHANGED others

\* "if current_clock_info: agentAttestState.set_tpm_clockinfo(...)"
Store(t) ==
    /\ pc[t] = "store"
    /\ stored' = IF timing[t].cur # {}
                 THEN CHOOSE c \in timing[t].cur : TRUE
                 ELSE stored
    /\ pc' = [pc EXCEPT ![t] = "pcrs"]
    /\ UNCHANGED <<hash_alg, quote, pcrs_dict, prev, timing, failure,
                   pcrs_args, trace, entry>>
    /\ UNCHANGED passed
    /\ UNCHANGED others

\* "return self.check_pcrs(...)" with the other arguments drawn from args;
\* the empty PCR map is only logged
PcrsWith(t, args) ==
    /\ pc[t] = "pcrs"
    /\ \E a \in args :
          LET in == WithPcrs(a, pcrs_dict[t])
          IN  /\ pcrs_args' = [pcrs_args EXCEPT ![t] = in]
              /\ failure' = [failure EXCEPT ![t] = CheckPcrs(in).failure]
    /\ pc' = [pc EXCEPT ![t] = "done"]
    /\ trace' = [trace EXCEPT ![t] = Append(@, "check_pcrs")]
    /\ UNCHANGED <<stored, hash_alg, quote, pcrs_dict, prev, timing, entry>>
    /\ UNCHANGED passed
    /\ UNCHANGED others

Pcrs(t) == PcrsWith(t, PcrsArgs)

\* the caller takes the result (or the exception); the frame is dropped
Return(t) ==
    /\ pc[t] \in {"done", "raised"}
    /\ pc' = [pc EXCEPT ![t] = "idle"]
    /\ hash_alg' = [hash_alg EXCEPT ![t] = {}]
    /\ quote' = [quote EXCEPT ![t] = NoQuote]
    /\ pcrs_dict' = [pcrs_dict EXCEPT ![t] = EmptyPcrs]
    /\ prev' = [prev EXCEPT ![t] = ZeroClockInfo]
    /\ timing' = [timing EXCEPT ![t] = NoTiming]
    /\ failure' = [failure EXCEPT ![t] = {}]
    /\ pcrs_args' = [pcrs_args EXCEPT ![t] = NoArgs]
    /\ trace' = [trace EXCEPT ![t] = <<>>]
    /\ entry' = [entry EXCEPT ![t] = ZeroClockInfo]
    /\ passed' = IF Len(trace[t]) >= 2 /\ trace[t][2] = "timing_ok"
                 THEN {quote[t].clock_info}
                 ELSE passed
    /\ UNCHANGED stored
    /\ UNCHANGED others

Next ==
    \E t \in Threads :
        \/ Call(t)
        \/ CheckQuote(t)
        \/ Timing(t)
        \/ Store(t)
        \/ Pcrs(t)
        \/ Return(t)

Spec == Init /\ [][Next]_vars


\* ---------------------------------------------------------------- claims
\* the call of thread t ran check_quote_timing on a quote whose clock info
\* could be extracted
TimingRan(t) ==
    /\ Len(trace[t]) >= 2
    /\ trace[t][2] \in {"timing_ok", "timing_err"}
    /\ quote[t].attest_ok

PassedClock(t) ==
    /\ Len(trace[t]) >= 2
    /\ trace[t][2] = "timing_ok"
    /\ pc[t] \in {"pcrs", "done"}

Current(t) == quote[t].clock_info

C2_CounterDecreaseRejected ==
    \A t \in Threads :
        (/\ TimingRan(t)
         /\ \/ Current(t).resetcount < prev[t].resetcount
            \/ Current(t).restartcount < prev[t].restartcount)
        => timing[t].err # NoError /\ timing[t].cur = {}

C2_Witness ==
    \E t \in Threads :
        /\ TimingRan(t)
        /\ Current(t).restartcount < prev[t].restartcount
        /\ Current(t).resetcount = prev[t].resetcount
        /\ Current(t).safe = 1
        /\ Current(t).clock > prev[t].clock
        /\ timing[t].err # NoError

\* C3: with equal resetcount and restartcount and the safe flag set,
\* check_quote_timing rejects when current.clock <= previous.clock, and
\* accepts and returns the current ClockInfo when current.clock >
\* previous.clock.
C3_ZeroDiffClock ==
    \A t \in Threads :
        (/\ TimingRan(t)
         /\ Current(t).resetcount = prev[t].resetcount
         /\ Current(t).restartcount = prev[t].restartcount
         /\ Current(t).safe = 1)
        => /\ Current(t).clock <= prev[t].clock => timing[t].err # NoError
           /\ Current(t).clock > prev[t].clock =>
                 timing[t].err = NoError /\ timing[t].cur = {Current(t)}

C3_Witness ==
    \E t \in Threads :
        /\ TimingRan(t)
        /\ Current(t).resetcount = prev[t].resetcount
        /\ Current(t).restartcount = prev[t].restartcount
        /\ Current(t).safe = 1
        /\ Current(t).clock = prev[t].clock
        /\ prev[t].clock > 0
        /\ timing[t].err # NoError

\* C4: when resetcount or restartcount increased, neither decreased and
\* the safe flag is set, check_quote_timing accepts the quote whatever the
\* clocks are.
C4_SkipAfterResetOrRestart ==
    \A t \in Threads :
        (/\ TimingRan(t)
         /\ Current(t).resetcount >= prev[t].resetcount
         /\ Current(t).restartcount >= prev[t].restartcount
         /\ \/ Current(t).resetcount > prev[t].resetcount
            \/ Current(t).restartcount > prev[t].restartcount
         /\ Current(t).safe = 1)
        => timing[t].err = NoError

\* C5: after check_quote passed the clock check for a quote whose
\* resetcount or restartcount increased, the stored clock state is that
\* quote's ClockInfo.
C5_NewBaselineAfterReset ==
    \A t \in Threads :
        (/\ PassedClock(t)
         /\ quote[t].attest_ok
         /\ \/ Current(t).resetcount > prev[t].resetcount
            \/ Current(t).restartcount > prev[t].restartcount)
        => stored = Current(t)

\* C6: a quote whose ClockInfo does not have the safe flag set is rejected
\* by check_quote_timing, with no new ClockInfo, for every previous
\* ClockInfo, counter and clock.
C6_UnsafeRejected ==
    \A t \in Threads :
        (TimingRan(t) /\ Current(t).safe # 1)
        => timing[t].err # NoError /\ timing[t].cur = {}

C6_Witness ==
    \E t \in Threads :
        /\ TimingRan(t)
        /\ Current(t).safe # 1
        /\ Current(t).resetcount = prev[t].resetcount
        /\ Current(t).restartcount = prev[t].restartcount
        /\ Current(t).clock > prev[t].clock
        /\ timing[t].err # NoError

ShortCircuit(t) ==
    /\ pc[t] \in {"done", "raised"}
    /\ ~(\E i \in 1..Len(trace[t]) : trace[t][i] = "check_pcrs")

C8_ShortCircuitEventsFatal ==
    \A t \in Threads :
        \A e \in failure[t] :
            (/\ e.component = QUOTE_VALIDATION
             /\ e.event_id \in {Id("hash_alg_missing"), Id("quote_validation")})
            => e.fatal

\* C9: for a quote that is malformed on the wire, check_quote returns a
\* Failure holding a fatal event (it does not end in an exception) and runs
\* neither the clock check nor check_pcrs.
C9_MalformedQuoteReported ==
    \A t \in Threads :
        (/\ MalformedQuote(quote[t])
         /\ hash_alg[t] # {}
         /\ pc[t] \notin {"idle", "checkquote"})
        => /\ pc[t] = "done"
           /\ HasFatal(failure[t])
           /\ Len(trace[t]) = 1

EmptyQuoteEvaluated(t) ==
    /\ pc[t] = "done"
    /\ Len(trace[t]) >= 2
    /\ trace[t][1] = "checkquote_ok"
    /\ trace[t][2] = "timing_ok"
    /\ pcrs_dict[t] = EmptyPcrs

MissingEvents(t) == {e \in failure[t] : e.event_id = Id("missing_pcrs")}

\* C10 as stated: with an empty PCR map, after the signature and clock
\* checks passed, check_quote adds no event of its own, calls check_pcrs,
\* and the report holds a missing_pcrs event listing every allowlist index.
C10_EmptyQuoteMissingPcrs_Original ==
    \A t \in Threads :
        EmptyQuoteEvaluated(t) =>
            /\ trace[t] = <<"checkquote_ok", "timing_ok", "check_pcrs">>
            /\ \A e \in failure[t] : e.component # QUOTE_VALIDATION
            /\ \E e \in MissingEvents(t) :
                  e.context.data = DOMAIN PcrAllowlist(pcrs_args[t].tpm_policy)

\* C10 amended: as above, and the report holds a missing_pcrs event, which
\* lists every allowlist index, exactly when the allowlist is not empty.
C10_EmptyQuoteMissingPcrs ==
    \A t \in Threads :
        EmptyQuoteEvaluated(t) =>
            LET allowlist == PcrAllowlist(pcrs_args[t].tpm_policy)
            IN  /\ trace[t] = <<"checkquote_ok", "timing_ok", "check_pcrs">>
                /\ \A e \in failure[t] : e.component # QUOTE_VALIDATION
                /\ DOMAIN allowlist # {} =>
                      /\ MissingEvents(t) # {}
                      /\ \A e \in MissingEvents(t) :
                            e.context.data = DOMAIN allowlist /\ e.fatal
                /\ DOMAIN allowlist = {} => MissingEvents(t) = {}

C10_Witness ==
    \E t \in Threads :
        /\ EmptyQuoteEvaluated(t)
        /\ DOMAIN PcrAllowlist(pcrs_args[t].tpm_policy) = {16, 17}
        /\ \E e \in MissingEvents(t) : e.context.data = {16, 17}


\* ------------------------------------------------- check_pcrs on its own
\* check_pcrs applied to arguments drawn from every combination of: a policy
\* with or without "mask", quoted PCRs among the data, IMA, measured-boot
\* and other indices, bound data, an IMA list (None, empty, lines), a
\* measured-boot log (None, empty, parsed, not parsed) and a reference state
\* (resolved or not).
Hex0A == <<"0", "a">>

PcrsPolicies ==
    {[k \in S |-> {HexAA}] : S \in SUBSET {"0", "16", "17"}}
    \cup {[k \in {"10"} |-> {HexAA}],
          [k \in {"mask", "10", "17"} |-> IF k = "mask" THEN {} ELSE {HexAA}]}

PcrsQuoted ==
    {f \in UNION {[S -> {HexAA, HexBB, Hex0A}] : S \in SUBSET {0, IMA_PCR, TPM_DATA_PCR, 17}} :
        /\ \A n \in DOMAIN f \ {0} : f[n] # Hex0A
        /\ IMA_PCR \in DOMAIN f => f[IMA_PCR] = HexAA
        /\ 0 \in DOMAIN f => f[0] # HexBB}

ImaEvent == Event(IMA, Id("ima_failure"), NoContext, TRUE)
MbPolicyEvent == Event(MEASURED_BOOT, Id("mb_policy_failure"), NoContext, TRUE)
MbParseEvent == Event(MEASURED_BOOT, Id("tpm2_eventlog"), NoContext, TRUE)

ImaCases ==
    {[list |-> {}, failure |-> {}]}
    \cup [list : {{""}, {"10 d0 ima-ng sha256:00 boot_aggregate"}},
          failure : {{}, {ImaEvent}}]

MbCases ==
    {[list |-> {}, mb |-> NoLog], [list |-> {""}, mb |-> NoLog],
     [list |-> {"log"}, mb |-> [pcrs_hashes |-> [n \in {0} |-> 170], failure |-> {}]],
     [list |-> {"log"}, mb |-> [pcrs_hashes |-> [n \in {0} |-> 10], failure |-> {}]],
     [list |-> {"log"}, mb |-> [pcrs_hashes |-> [n \in {} |-> 0],
                                failure |-> {MbParseEvent}]]}

CheckPcrsInputs ==
    {[tpm_policy |-> p, pcrs_dict |-> q, data |-> d,
      ima_measurement_list |-> i.list, ima_failure |-> i.failure,
      mb_measurement_list |-> m.list, mb_refstate_data |-> r, mb |-> m.mb,
      mb_policy_failure |-> {MbPolicyEvent}] :
        p \in PcrsPolicies, q \in PcrsQuoted, d \in {{}, {"nonce123"}, {"other"}},
        i \in ImaCases, m \in MbCases, r \in BOOLEAN}

InitPcrs ==
    /\ QuoteInit
    /\ input \in CheckPcrsInputs
    /\ output = {}
    /\ tpmutilLock = {}
    /\ run = [t \in Threads |-> NoRun]

EvalPcrs ==
    /\ output = {}
    /\ output' = {CheckPcrs(input)}
    /\ UNCHANGED <<quote_vars, input, tpmutilLock, run>>

NextPcrs == EvalPcrs

SpecPcrs == InitPcrs /\ [][NextPcrs]_vars

EventsWithId(failure_, id) == {e \in failure_ : e.event_id = id}

\* C11: check_pcrs records a missing_pcrs event if and only if some
\* allowlist index is absent from the quote; the event lists exactly the
\* allowlist indices that are not in the quote, and every quoted index with
\* an allowlist entry is claimed.
C11_MissingPcrsExact ==
    \A r \in output :
        LET allow == DOMAIN PcrAllowlist(input.tpm_policy)
            absent == allow \ DOMAIN input.pcrs_dict
            evs == EventsWithId(r.failure, Id("missing_pcrs"))
        IN  /\ evs # {} <=> absent # {}
            /\ \A e \in evs : e.context.data = absent
            /\ Cardinality(evs) <= 1
            /\ allow \cap DOMAIN input.pcrs_dict \subseteq r.pcrs_in_quote

C11_Witness ==
    \E r \in output :
        /\ DOMAIN input.pcrs_dict = {0, TPM_DATA_PCR}
        /\ DOMAIN PcrAllowlist(input.tpm_policy) = {0, TPM_DATA_PCR, 17}
        /\ input.data = {}
        /\ input.mb_refstate_data
        /\ input.mb_measurement_list = {""}
        /\ \E e \in EventsWithId(r.failure, Id("missing_pcrs")) : e.context.data = {17}

\* C12: with the data PCR in the quote and bound data supplied, check_pcrs
\* records a fatal invalid_pcr_<data index> event if and only if the quoted
\* value differs from sim_extend(data); the event carries got = the quoted
\* value and expected = the recomputed value; the index is claimed in both
\* cases.
C12_DataPcrCompared ==
    \A r \in output :
        (TPM_DATA_PCR \in DOMAIN input.pcrs_dict /\ input.data # {}) =>
            LET got == input.pcrs_dict[TPM_DATA_PCR]
                expected == SimExtend(CHOOSE d \in input.data : TRUE)
                evs == {e \in EventsWithId(r.failure, IdN("invalid_pcr", TPM_DATA_PCR)) :
                           e.component = PCR_VALIDATION}
            IN  /\ evs # {} <=> got # expected
                /\ \A e \in evs :
                      /\ e.fatal
                      /\ e.context.got = got
                      /\ e.context.expected = {expected}
                /\ TPM_DATA_PCR \in r.pcrs_in_quote

C12_Witness ==
    \E r \in output :
        /\ TPM_DATA_PCR \in DOMAIN input.pcrs_dict
        /\ input.data = {"other"}
        /\ input.pcrs_dict[TPM_DATA_PCR] = HexAA
        /\ \E e \in EventsWithId(r.failure, IdN("invalid_pcr", TPM_DATA_PCR)) :
              e.context.got = HexAA /\ e.context.expected = {HexBB}

\* C13: check_pcrs records missing_pcr_<data index> exactly when the data
\* PCR index is absent from the quote, never for a quote that contains it.
C13_MissingDataPcrOnlyIfAbsent ==
    \A r \in output :
        EventsWithId(r.failure, IdN("missing_pcr", TPM_DATA_PCR)) # {}
            <=> TPM_DATA_PCR \notin DOMAIN input.pcrs_dict

\* C14: with the IMA PCR in the quote, an absent or empty IMA measurement
\* list gives a fatal unused_pcr_<IMA index> event and no call of the IMA
\* evaluator; a non-empty list gives one call whose failure is merged; the
\* IMA index is claimed in every case.
C14_ImaListRequired ==
    \A r \in output :
        IMA_PCR \in DOMAIN input.pcrs_dict =>
            LET unused == EventsWithId(r.failure, IdN("unused_pcr", IMA_PCR))
            IN  /\ ~Truthy(input.ima_measurement_list) =>
                      /\ unused # {}
                      /\ \A e \in unused : e.fatal
                      /\ ~r.ima_called
                /\ Truthy(input.ima_measurement_list) =>
                      /\ unused = {}
                      /\ r.ima_called
                      /\ input.ima_failure \subseteq r.failure
                /\ IMA_PCR \in r.pcrs_in_quote


\* ------------------------------------------------- external commands
\* The operations of one Tpm instance that run an external command, each
\* with the lock argument it passes to __run: tool-version detection and
\* parse_binary_bootlog use the default (lock=True), encryptAIK passes
\* lock=False.
Commands == {"tpm2_startup", "tpm2_eventlog", "tpm2_makecredential"}

RunLock(cmd) == cmd # "tpm2_makecredential"

InitLock ==
    /\ QuoteInit
    /\ OthersInit

\* A thread calls __run(cmd, lock).
RunCall(t) ==
    /\ run[t].at = "idle"
    /\ \E cmd \in Commands : run' = [run EXCEPT ![t] = [op |-> cmd, at |-> "enter"]]
    /\ UNCHANGED <<quote_vars, input, output, tpmutilLock>>

\* lock=True: `with self.tpmutilLock:` blocks until the lock is free, then
\* cmd_exec.run starts.
RunLocked(t) ==
    /\ run[t].at = "enter"
    /\ RunLock(run[t].op)
    /\ tpmutilLock = {}
    /\ tpmutilLock' = {t}
    /\ run' = [run EXCEPT ![t].at = "exec"]
    /\ UNCHANGED <<quote_vars, input, output>>

\* lock=False: cmd_exec.run starts at once.
RunUnlocked(t) ==
    /\ run[t].at = "enter"
    /\ ~RunLock(run[t].op)
    /\ run' = [run EXCEPT ![t].at = "exec"]
    /\ UNCHANGED <<quote_vars, input, output, tpmutilLock>>

\* cmd_exec.run comes back with an exit code; leaving the with block
\* releases the lock; a code other than EXIT_SUCCESS raises.
RunFinish(t) ==
    /\ run[t].at = "exec"
    /\ \E ok \in BOOLEAN :
          run' = [run EXCEPT ![t].at = IF ok THEN "returned" ELSE "raised"]
    /\ tpmutilLock' = tpmutilLock \ {t}
    /\ UNCHANGED <<quote_vars, input, output>>

\* The calling operation ends.
RunReturn(t) ==
    /\ run[t].at \in {"returned", "raised"}
    /\ run' = [run EXCEPT ![t] = NoRun]
    /\ UNCHANGED <<quote_vars, input, output, tpmutilLock>>

NextLock ==
    \E t \in Threads :
        \/ RunCall(t)
        \/ RunLocked(t)
        \/ RunUnlocked(t)
        \/ RunFinish(t)
        \/ RunReturn(t)

SpecLock == InitLock /\ [][NextLock]_vars

InFlight == {t \in Threads : run[t].at = "exec"}

\* C15: across every interleaving of threads calling the operations of one
\* Tpm instance that run external commands, at most one command invocation
\* is in flight, and every invocation in flight holds tpmutilLock.
C15_OneCommandInFlight ==
    /\ Cardinality(InFlight) <= 1
    /\ \A t \in InFlight : tpmutilLock = {t}


\* ------------------------------------------------- __unescape_eventlog
\* Strings are sequences of characters.  The control characters are written
\* by name ("NUL", "BEL", "BS", "TAB", "VT", "FF", "CR", "ESC"); the printable
\* ones stand for themselves.
MaxLen == 3

EscapedChars ==
    << <<"NUL", <<"\\", "0">> >>,
       <<"BEL", <<"\\", "a">> >>,
       <<"BS",  <<"\\", "b">> >>,
       <<"TAB", <<"\\", "t">> >>,
       <<"VT",  <<"\\", "v">> >>,
       <<"FF",  <<"\\", "f">> >>,
       <<"CR",  <<"\\", "r">> >>,
       <<"ESC", <<"\\", "e">> >>,
       <<"'",   <<"\\", "'">> >>,
       <<"\\",  <<"\\", "\\">> >> >>

EscapeSet == {EscapedChars[i][1] : i \in DOMAIN EscapedChars}

\* The class attribute Tpm.tools_version; __get_tpm2_tools assigns
\* self.tools_version, an attribute of the instance, and leaves it alone.
ClassToolsVersion == ""

ToolsVersions == {"3.2", "4.0", "4.2", "5.4"}

\* str.replace with only its first occurrence replaced.
RECURSIVE Replace_First(_, _, _)
Replace_First(data, escaped, orig) ==
    IF Len(data) < Len(escaped) THEN data
    ELSE IF SubSeq(data, 1, Len(escaped)) = escaped
    THEN <<orig>> \o SubSeq(data, Len(escaped) + 1, Len(data))
    ELSE <<Head(data)>> \o Replace_First(Tail(data), escaped, orig)

\* data.replace(escaped, orig): every non-overlapping occurrence, leftmost
\* first.
RECURSIVE Replace(_, _, _)
Replace(data, escaped, orig) ==
    IF Len(data) < Len(escaped) THEN data
    ELSE IF SubSeq(data, 1, Len(escaped)) = escaped
    THEN <<orig>> \o Replace(SubSeq(data, Len(escaped) + 1, Len(data)), escaped, orig)
    ELSE <<Head(data)>> \o Replace(Tail(data), escaped, orig)

\* data.rstrip("\0")
RECURSIVE RStripNul(_)
RStripNul(data) ==
    IF data # <<>> /\ data[Len(data)] = "NUL"
    THEN RStripNul(SubSeq(data, 1, Len(data) - 1))
    ELSE data

\* The loop over escaped_chars, from entry i on.
RECURSIVE ReplaceAll(_, _)
ReplaceAll(data, i) ==
    IF i > Len(EscapedChars) THEN data
    ELSE ReplaceAll(Replace(data, EscapedChars[i][2], EscapedChars[i][1]), i + 1)

\* recursive_unescape on a string.
RecursiveUnescape(data) ==
    IF data # <<>> /\ Head(data) = "\"" /\ data[Len(data)] = "\""
    THEN RStripNul(ReplaceAll(SubSeq(data, 2, Len(data) - 1), 1))
    ELSE data

UnescapeEventlog(data) ==
    IF ClassToolsVersion \in {"3.2", "4.0", "4.2"}
    THEN data
    ELSE RecursiveUnescape(data)

\* What tpm2-tools 5.4 writes for a string: every character by its
\* two-character escape, in double quotes.
EscapeOf(c) == EscapedChars[CHOOSE i \in DOMAIN EscapedChars : EscapedChars[i][1] = c][2]

RECURSIVE EscapeBody(_)
EscapeBody(s) == IF s = <<>> THEN <<>> ELSE EscapeOf(Head(s)) \o EscapeBody(Tail(s))

Escape(s) == <<"\"">> \o EscapeBody(s) \o <<"\"">>

EscapeStrings == UNION {[1..n -> EscapeSet] : n \in 0..MaxLen}

InitEscape ==
    /\ QuoteInit
    /\ input \in [tools_version : {"5.4"}, s : EscapeStrings]
    /\ output = {}
    /\ tpmutilLock = {}
    /\ run = [t \in Threads |-> NoRun]

Unescape ==
    /\ output = {}
    /\ output' = {UnescapeEventlog(Escape(input.s))}
    /\ UNCHANGED <<quote_vars, input, tpmutilLock, run>>

NextEscape == Unescape

SpecEscape == InitEscape /\ [][NextEscape]_vars

\* C17 (as stated): for every string s over the escape set, unescaping the
\* quoted, escaped form of s yields exactly s.
C17_RoundTrip_Original ==
    \A r \in output : r = input.s

\* C17 (amended): for every string s over the escape set, unescaping the
\* quoted, escaped form of s yields s without its trailing NUL characters:
\* the result is a prefix of s that does not end in NUL, and all of s after
\* it is NUL.  For s not ending in NUL the result is exactly s.
C17_RoundTrip ==
    \A r \in output :
        /\ Len(r) <= Len(input.s)
        /\ r = SubSeq(input.s, 1, Len(r))
        /\ \A i \in (Len(r) + 1)..Len(input.s) : input.s[i] = "NUL"
        /\ r # <<>> => r[Len(r)] # "NUL"

C17_Witness ==
    /\ input.s = <<"\\", "'", "NUL">>
    /\ output = {<<"\\", "'">>}


\* ------------------------------------------------- the boot log document
\* The decoded document, as far as the passes look at it: whether it is a
\* dict, its "pcrs" entry (a dict of per-algorithm cells, or a list, a string
\* or null), one string leaf, and its "boot_aggregates" entry once added.
\* A dict key is <<"int", n>> (as the YAML loader gives it) or <<"str", n>>;
\* a PCR value is {v} for the integer v and {} for a value that cannot be
\* formatted as hex.
IntKey(n) == <<"int", n>>
StrKey(n) == <<"str", n>>

\* str(index)
Str(key) == StrKey(key[2])

Cell(indices, malformed) ==
    [kind |-> "dict",
     vals |-> [k \in {IntKey(n) : n \in indices} |->
                  IF k[2] \in malformed THEN {} ELSE {k[2] + 1}]]

ListCell == [kind |-> "list", vals |-> [k \in {} |-> {}]]

CellShapes ==
    {Cell(0..9, {}), Cell(0..7, {}), Cell((0..9) \ {3}, {}), Cell(0..9, {8}),
     Cell({}, {}), ListCell}

LogAlgs == {"sha1", "sha256", "sm3_256"}

NoCells == [a \in {} |-> ListCell]

PcrsValues ==
    {[kind |-> k, cells |-> NoCells] : k \in {"list", "str", "null"}}
    \cup {[kind |-> "dict", cells |-> c] :
             c \in UNION {[S -> CellShapes] : S \in SUBSET LogAlgs}}

Leaves == {{}, {<<"a", "\\", "0">>}, {Escape(<<"'", "NUL">>)}}

ListDoc ==
    [kind |-> "list", has_pcrs |-> FALSE, pcrs |-> [kind |-> "null", cells |-> NoCells],
     leaf |-> {}, boot_aggregates |-> {}]

Docs ==
    {ListDoc}
    \cup {[ListDoc EXCEPT !.kind = "dict", !.leaf = l] : l \in Leaves}
    \cup {[kind |-> "dict", has_pcrs |-> TRUE, pcrs |-> p, leaf |-> l,
           boot_aggregates |-> {}] : p \in PcrsValues, l \in Leaves}

\* __stringify_pcr_keys
StringifyPcrKeys(log) ==
    IF log.kind # "dict" \/ ~log.has_pcrs THEN log
    ELSE IF log.pcrs.kind # "dict" THEN log
    ELSE [log EXCEPT !.pcrs.cells =
             [a \in DOMAIN @ |->
                 IF @[a].kind # "dict" THEN @[a]
                 ELSE [kind |-> "dict",
                       vals |-> [k \in {Str(j) : j \in DOMAIN @[a].vals} |->
                                    @[a].vals[CHOOSE j \in DOMAIN @[a].vals : Str(j) = k]]]]]

\* getattr(hashlib, hashalg) followed by hashclass()
Supported(hashalg) == hashalg \in {"sha1", "sha256"}

\* The try block succeeds on the PCR keys alone.
AggregateOk_IgnoreFormat(cells, hashalg, maxpcr) ==
    /\ Supported(hashalg)
    /\ cells[hashalg].kind = "dict"
    /\ \A pcrno \in 0..(maxpcr - 1) : StrKey(pcrno) \in DOMAIN cells[hashalg].vals

\* The try block of __add_boot_aggregate runs to its end: the hash class
\* exists, every log["pcrs"][hashalg][str(pcrno)] is there and formats as hex.
AggregateOk(cells, hashalg, maxpcr) ==
    /\ Supported(hashalg)
    /\ cells[hashalg].kind = "dict"
    /\ \A pcrno \in 0..(maxpcr - 1) :
          /\ StrKey(pcrno) \in DOMAIN cells[hashalg].vals
          /\ cells[hashalg].vals[StrKey(pcrno)] # {}

\* h.hexdigest(): the digest stands for what was hashed, PCR 0 first.
Aggregate(cells, hashalg, maxpcr) ==
    [hashalg |-> hashalg,
     over |-> [i \in 1..maxpcr |->
                  IF StrKey(i - 1) \in DOMAIN cells[hashalg].vals
                  THEN cells[hashalg].vals[StrKey(i - 1)] ELSE {}]]

TryAggregate(cells, hashalg, maxpcr) ==
    IF AggregateOk(cells, hashalg, maxpcr)
    THEN <<Aggregate(cells, hashalg, maxpcr)>>
    ELSE <<>>

\* __add_boot_aggregate: log["pcrs"].keys() is evaluated outside the try.
AddBootAggregate(log) ==
    IF log.kind # "dict" \/ ~log.has_pcrs
    THEN [raised |-> FALSE, log |-> log]
    ELSE IF log.pcrs.kind # "dict"
    THEN [raised |-> TRUE, log |-> [log EXCEPT !.boot_aggregates = {NoCells}]]
    ELSE [raised |-> FALSE,
          log |-> [log EXCEPT !.boot_aggregates =
                      {[a \in DOMAIN log.pcrs.cells |->
                           TryAggregate(log.pcrs.cells, a, 8)
                           \o TryAggregate(log.pcrs.cells, a, 10)]}]]

\* __unescape_eventlog over the document's string leaf.
UnescapeLog(log) == [log EXCEPT !.leaf = {UnescapeEventlog(l) : l \in @}]

\* tpm_bootlog_enrich.enrich adds fields to the events of the log; it leaves
\* the parts of the document kept here alone.
Enrich(log) == log


\* ------------------------------------------------- parse_binary_bootlog
MbEvent(name) == Event(MEASURED_BOOT, Id(name), NoContext, TRUE)

\* The decoder's diagnostic stream is not looked at.
DecoderFailure_IgnoreStderr(in) ==
    IF ~in.code_ok THEN {MbEvent("tpm2_eventlog")} ELSE {}

\* Running tpm2_eventlog: __run raises on an exit code other than
\* EXIT_SUCCESS; a non-empty reterr is a failure too.
DecoderFailure(in) ==
    IF ~in.code_ok THEN {MbEvent("tpm2_eventlog")}
    ELSE IF in.reterr THEN {MbEvent("tpm2_eventlog.warning")}
    ELSE {}

NoPasses == {}

BinaryResult(raised, failure_, doc, passes) ==
    [raised |-> raised, failure |-> failure_, doc |-> doc, passes |-> passes]

\* parse_binary_bootlog; `passes` records which of the later passes ran,
\* `raised` that an exception left the routine.
ParseBinaryBootlog(in) ==
    IF DecoderFailure(in) # {}
    THEN BinaryResult(FALSE, DecoderFailure(in), {}, NoPasses)
    ELSE IF in.parsed = {}
    THEN BinaryResult(FALSE, {MbEvent("yaml")}, {}, NoPasses)
    ELSE IF ~in.enrich_ok
    THEN BinaryResult(FALSE, {MbEvent("bootlog_enrich")}, {}, NoPasses)
    ELSE LET log_parsed_data == CHOOSE d \in in.parsed : TRUE
             stringified == StringifyPcrKeys(Enrich(log_parsed_data))
             aggregated == AddBootAggregate(stringified)
         IN  IF aggregated.raised
             THEN BinaryResult(TRUE, {}, {}, {"enrich", "stringify", "aggregate"})
             ELSE BinaryResult(FALSE, {}, {UnescapeLog(aggregated.log)},
                               {"enrich", "stringify", "aggregate", "unescape"})

\* _parse_mb_bootlog: only binascii.Error is caught.
ParseMbBootlogInner(in) ==
    IF ~in.b64_ok
    THEN [raised |-> FALSE, failure |-> {MbEvent("log.base64decode")}, result |-> {}]
    ELSE LET b == ParseBinaryBootlog(in)
         IN  IF b.raised THEN [raised |-> TRUE, failure |-> {}, result |-> {}]
             ELSE IF b.failure # {}
             THEN [raised |-> FALSE, failure |-> b.failure, result |-> {}]
             ELSE [raised |-> FALSE, failure |-> {}, result |-> b.doc]

\* `not mb_measurement_data`: None or an empty dict.
DocFalsy(result) ==
    \A d \in result :
        d.kind = "dict" /\ ~d.has_pcrs /\ d.leaf = {} /\ d.boot_aggregates = {}

MbResult(raised, pcr_hashes, boot_aggregates, data, failure_) ==
    [raised |-> raised, pcr_hashes |-> pcr_hashes, boot_aggregates |-> boot_aggregates,
     mb_measurement_data |-> data, failure |-> failure_]

MbNothing(failure_) == MbResult(FALSE, {}, {}, {}, failure_)

\* parse_mb_bootlog
ParseMbBootlog(in) ==
    IF ~Truthy(in.mb_measurement_list) THEN MbNothing({})
    ELSE LET inner == ParseMbBootlogInner(in)
         IN  IF inner.raised THEN MbResult(TRUE, {}, {}, {}, {})
             ELSE IF DocFalsy(inner.result) THEN MbNothing(inner.failure)
             ELSE LET mb_measurement_data == CHOOSE d \in inner.result : TRUE
                      log_pcrs == mb_measurement_data.pcrs
                  IN  IF mb_measurement_data.kind # "dict"
                      THEN MbResult(TRUE, {}, {}, {}, {})
                      ELSE IF ~mb_measurement_data.has_pcrs \/ log_pcrs.kind # "dict"
                      THEN MbNothing({MbEvent("invalid_pcrs")})
                      ELSE IF \/ in.hash_alg \notin DOMAIN log_pcrs.cells
                              \/ log_pcrs.cells[in.hash_alg].kind # "dict"
                              \/ DOMAIN log_pcrs.cells[in.hash_alg].vals = {}
                      THEN MbNothing({MbEvent("invalid_pcrs_hashes")})
                      ELSE IF \A a \in mb_measurement_data.boot_aggregates : DOMAIN a = {}
                      THEN MbNothing({MbEvent("invalid_boot_aggregates")})
                      ELSE MbResult(FALSE, {log_pcrs.cells[in.hash_alg]},
                                    mb_measurement_data.boot_aggregates,
                                    {mb_measurement_data}, {})

DefaultDoc ==
    [kind |-> "dict", has_pcrs |-> TRUE,
     pcrs |-> [kind |-> "dict", cells |-> [a \in {"sha256"} |-> Cell(0..9, {})]],
     leaf |-> {}, boot_aggregates |-> {}]

\* Arguments and answers of the outside world: every way the decoding can
\* fail around one good document, and every document with the decoding
\* succeeding.
BootlogInputs ==
    [mb_measurement_list : {{}, {""}, {"log"}}, hash_alg : {"sha256"},
     tools_version : {"5.4"}, b64_ok : BOOLEAN, code_ok : BOOLEAN, reterr : BOOLEAN,
     enrich_ok : BOOLEAN, parsed : {{}, {DefaultDoc}}]
    \cup [mb_measurement_list : {{"log"}}, hash_alg : {"sha1", "sha256"},
          tools_version : ToolsVersions, b64_ok : {TRUE}, code_ok : {TRUE},
          reterr : {FALSE}, enrich_ok : {TRUE}, parsed : {{d} : d \in Docs}]

InitBootlog ==
    /\ QuoteInit
    /\ input \in BootlogInputs
    /\ output = {}
    /\ tpmutilLock = {}
    /\ run = [t \in Threads |-> NoRun]

ParseBinary ==
    /\ output = {}
    /\ output' = {[op |-> "parse_binary_bootlog", r |-> ParseBinaryBootlog(input)]}
    /\ UNCHANGED <<quote_vars, input, tpmutilLock, run>>

ParseMb ==
    /\ output = {}
    /\ output' = {[op |-> "parse_mb_bootlog", r |-> ParseMbBootlog(input)]}
    /\ UNCHANGED <<quote_vars, input, tpmutilLock, run>>

NextBootlog == ParseBinary \/ ParseMb

SpecBootlog == InitBootlog /\ [][NextBootlog]_vars

BinaryOutputs == {o.r : o \in {x \in output : x.op = "parse_binary_bootlog"}}
MbOutputs == {o.r : o \in {x \in output : x.op = "parse_mb_bootlog"}}

\* The decoding succeeded and gave a document.
Decoded == input.code_ok /\ ~input.reterr /\ input.parsed # {} /\ input.enrich_ok


\* C16: for an instance whose detected tools version is 3.2, 4.0 or 4.2 the
\* document returned by parse_binary_bootlog has its string leaf as the
\* earlier passes left it; only for a detected version of 5.4 is the leaf
\* unescaped.
C16_UnescapeGatedByDetectedVersion ==
    \A r \in BinaryOutputs :
        \A d \in r.doc :
            LET before == (CHOOSE p \in input.parsed : TRUE).leaf
            IN  /\ input.tools_version \in {"3.2", "4.0", "4.2"} => d.leaf = before
                /\ input.tools_version = "5.4" =>
                      d.leaf = {RecursiveUnescape(l) : l \in before}

\* C18: whenever the decoder command fails or its stderr stream is not
\* empty, parse_binary_bootlog returns a measured-boot Failure with at least
\* one fatal event and no document, and none of the later passes runs.
C18_DecoderFailureStops ==
    \A r \in BinaryOutputs :
        (~input.code_ok \/ input.reterr) =>
            /\ ~r.raised
            /\ \E e \in r.failure : e.fatal
            /\ \A e \in r.failure : e.component = MEASURED_BOOT
            /\ r.doc = {}
            /\ r.passes = {}

C18_Witness ==
    \E r \in BinaryOutputs :
        /\ input.code_ok /\ input.reterr /\ input.parsed # {} /\ input.enrich_ok
        /\ r.failure = {MbEvent("tpm2_eventlog.warning")}
        /\ r.doc = {}

\* C19: for every algorithm key under pcrs and each size in {8, 10}, the
\* boot-aggregate pass appends one aggregate for (algorithm, size) if and
\* only if the algorithm is supported and PCRs 0..size-1 are all present and
\* well-formed; a failing combination is left out without an exception or
\* an event, and the other combinations are still computed.
C19_AggregatePerCombination ==
    \A r \in BinaryOutputs :
        LET parsed == CHOOSE p \in input.parsed : TRUE
        IN  (Decoded /\ parsed.kind = "dict" /\ parsed.has_pcrs /\ parsed.pcrs.kind = "dict") =>
                /\ ~r.raised
                /\ r.failure = {}
                /\ \E d \in r.doc : \E aggregates \in d.boot_aggregates :
                      /\ DOMAIN aggregates = DOMAIN parsed.pcrs.cells
                      /\ \A a \in DOMAIN aggregates :
                            LET cell == parsed.pcrs.cells[a]
                                good(size) ==
                                    /\ a \in {"sha1", "sha256"}
                                    /\ cell.kind = "dict"
                                    /\ \A n \in 0..(size - 1) :
                                          /\ IntKey(n) \in DOMAIN cell.vals
                                          /\ cell.vals[IntKey(n)] # {}
                                have(size) ==
                                    {i \in DOMAIN aggregates[a] :
                                        /\ Len(aggregates[a][i].over) = size
                                        /\ \A n \in 1..size :
                                              aggregates[a][i].over[n] = cell.vals[IntKey(n - 1)]}
                            IN  /\ \A size \in {8, 10} :
                                      Cardinality(have(size)) = IF good(size) THEN 1 ELSE 0
                                /\ Len(aggregates[a]) =
                                      Cardinality({size \in {8, 10} : good(size)})

C19_Witness ==
    \E r \in BinaryOutputs : \E d \in r.doc : \E aggregates \in d.boot_aggregates :
        /\ (CHOOSE p \in input.parsed : TRUE).pcrs.cells =
              [a \in LogAlgs |-> IF a = "sha256" THEN Cell(0..9, {8}) ELSE Cell(0..9, {})]
        /\ Len(aggregates["sha1"]) = 2
        /\ Len(aggregates["sha256"]) = 1
        /\ Len(aggregates["sm3_256"]) = 0

\* C20: for every shape of a decoded document (pcrs absent, pcrs a list, a
\* string or null, a per-algorithm cell that is not a mapping) the passes
\* complete without raising, and parse_mb_bootlog reports a non-mapping
\* pcrs value as a fatal invalid_pcrs event.
C20_PassesTolerateMalformed ==
    LET parsed == CHOOSE p \in input.parsed : TRUE
    IN  (Decoded /\ parsed.kind = "dict") =>
            /\ \A r \in BinaryOutputs : ~r.raised /\ r.doc # {}
            /\ \A r \in MbOutputs :
                  /\ ~r.raised
                  /\ (Truthy(input.mb_measurement_list) /\ input.b64_ok
                        /\ parsed.has_pcrs /\ parsed.pcrs.kind # "dict") =>
                        \E e \in r.failure : e.event_id = Id("invalid_pcrs") /\ e.fatal


\* ------------------------------------------------- sequences of calls
\* C21: over caller-serialized check_quote calls for one agent, if quote A
\* passed the clock check and B is the next quote that passes it, then
\* B.resetcount >= A.resetcount and B.restartcount >= A.restartcount.
C21_CountersNeverDecrease ==
    \A t \in Threads :
        PassedClock(t) =>
            \A A \in passed :
                /\ Current(t).resetcount >= A.resetcount
                /\ Current(t).restartcount >= A.restartcount

\* C22: over caller-serialized check_quote calls for one agent, a quote
\* that carries the ClockInfo of a quote that already passed the clock
\* check (here: the last one that did) is rejected by the clock check.
C22_ReplayRejected ==
    \A t \in Threads :
        (TimingRan(t) /\ passed = {Current(t)}) => timing[t].err # NoError

EventsOf(failure_, component, id) ==
    {e \in EventsWithId(failure_, id) : e.component = component}

\* A measured-boot log was supplied and parsed without failure, and a
\* reference state was resolved.
MbEvaluated ==
    /\ Truthy(input.mb_measurement_list)
    /\ input.mb.failure = {}
    /\ input.mb_refstate_data

\* C23: for each measured-boot PCR index in the quote, when a log was
\* supplied and parsed without failure and a reference state was resolved,
\* check_pcrs records a measured-boot invalid_pcr_<index> event if and only
\* if the log value (as hex, left zeros stripped) differs from the quoted
\* value (left zeros stripped), and a PCR-validation invalid_pcr_<index>
\* event if and only if the index has an allowlist entry that does not
\* contain the quoted value; the index is claimed either way.
C23_MeasuredBootTwoChecks ==
    \A r \in output :
        \A n \in MEASUREDBOOT_PCRS \cap DOMAIN input.pcrs_dict :
            MbEvaluated =>
                LET quoted == input.pcrs_dict[n]
                    from_log == IF n \in DOMAIN input.mb.pcrs_hashes
                                THEN input.mb.pcrs_hashes[n] ELSE 0
                    pcr_allowlist == PcrAllowlist(input.tpm_policy)
                IN  /\ EventsOf(r.failure, MEASURED_BOOT, IdN("invalid_pcr", n)) # {}
                          <=> LStripZero(HexOf(from_log)) # LStripZero(quoted)
                    /\ EventsOf(r.failure, PCR_VALIDATION, IdN("invalid_pcr", n)) # {}
                          <=> (n \in DOMAIN pcr_allowlist /\ quoted \notin pcr_allowlist[n])
                    /\ n \in r.pcrs_in_quote

C23_Witness ==
    \E r \in output :
        /\ MbEvaluated
        /\ 0 \in DOMAIN input.pcrs_dict
        /\ input.pcrs_dict[0] = Hex0A
        /\ input.mb.pcrs_hashes = [n \in {0} |-> 170]
        /\ EventsOf(r.failure, MEASURED_BOOT, IdN("invalid_pcr", 0)) # {}
        /\ EventsOf(r.failure, PCR_VALIDATION, IdN("invalid_pcr", 0)) # {}

\* C24: check_pcrs invokes the measured-boot policy evaluator if and only
\* if a log was supplied and enriched without failure and a reference state
\* was resolved; when invoked it receives the set of indices claimed so far
\* and its failure is merged into the report.
C24_MbPolicyEvaluatorCalled ==
    \A r \in output :
        /\ r.mb_policy_called <=> MbEvaluated
        /\ r.mb_policy_called =>
              /\ r.mb_policy_pcrs = {r.pcrs_in_quote}
              /\ input.mb_policy_failure \subseteq r.failure

\* C25: check_pcrs never short-circuits: whatever an earlier step recorded,
\* the parse failure, the data PCR event, the IMA event or failure, the
\* allowlist mismatch of a residual PCR and the missing_pcrs event are all
\* in the one report, and the measured-boot policy evaluator is still
\* called when its condition holds.
C25_NoShortCircuit ==
    \A r \in output :
        LET pcr_allowlist == PcrAllowlist(input.tpm_policy)
            quoted == DOMAIN input.pcrs_dict
        IN  /\ input.mb.failure \subseteq r.failure
            /\ (TPM_DATA_PCR \notin quoted \/ input.data = {}) =>
                  EventsWithId(r.failure, IdN("missing_pcr", TPM_DATA_PCR)) # {}
            /\ (IMA_PCR \in quoted /\ input.ima_measurement_list = {}) =>
                  EventsWithId(r.failure, IdN("unused_pcr", IMA_PCR)) # {}
            /\ (IMA_PCR \in quoted /\ input.ima_measurement_list # {}) =>
                  r.ima_called /\ input.ima_failure \subseteq r.failure
            /\ (17 \in quoted /\ 17 \in DOMAIN pcr_allowlist
                  /\ input.pcrs_dict[17] \notin pcr_allowlist[17]) =>
                  EventsOf(r.failure, PCR_VALIDATION, IdN("invalid_pcr", 17)) # {}
            /\ DOMAIN pcr_allowlist \ quoted # {} =>
                  EventsWithId(r.failure, Id("missing_pcrs")) # {}
            /\ (input.mb.failure = {} /\ input.mb_refstate_data) =>
                  r.mb_policy_called /\ input.mb_policy_failure \subseteq r.failure

C25_Witness ==
    \E r \in output :
        /\ EventsWithId(r.failure, IdN("invalid_pcr", TPM_DATA_PCR)) # {}
        /\ ImaEvent \in r.failure
        /\ MbParseEvent \in r.failure
        /\ EventsOf(r.failure, PCR_VALIDATION, IdN("invalid_pcr", 17)) # {}
        /\ EventsWithId(r.failure, Id("missing_pcrs")) # {}


\* C28: whenever a measured-boot log was supplied and parse_mb_bootlog
\* returns no usable document (empty PCR hashes, no boot aggregates, an
\* empty document), the Failure it returns holds at least one event.
C28_UnusableLogHasEvent ==
    \A r \in MbOutputs :
        (/\ Truthy(input.mb_measurement_list)
         /\ ~r.raised
         /\ r.pcr_hashes = {}
         /\ r.boot_aggregates = {}
         /\ r.mb_measurement_data = {})
        => r.failure # {}

\* ------------------------------------------------- calls not serialized
\* The quotes of the race: well-formed, validly signed, from a TPM that
\* reports its clock as safe and was not restarted.
RaceQuotes ==
    {q \in Quotes :
        /\ ~MalformedQuote(q) /\ ~q.sig_err /\ q.attest_ok
        /\ q.pcrs = EmptyPcrs
        /\ q.clock_info.safe = 1
        /\ q.clock_info.restartcount = 0}

\* check_quote up to the hash_alg check, begun whatever the other thread
\* is doing: the caller does not serialize the calls for the agent.
CallUnserialized(t) ==
    /\ pc[t] = "idle"
    /\ \E h \in HashAlgs \ {{}}, q \in RaceQuotes :
          /\ hash_alg' = [hash_alg EXCEPT ![t] = h]
          /\ quote' = [quote EXCEPT ![t] = q]
          /\ failure' = [failure EXCEPT ![t] = {}]
          /\ pc' = [pc EXCEPT ![t] = "checkquote"]
    /\ entry' = [entry EXCEPT ![t] = stored]
    /\ trace' = [trace EXCEPT ![t] = <<>>]
    /\ UNCHANGED <<stored, pcrs_dict, prev, timing, pcrs_args>>
    /\ UNCHANGED passed
    /\ UNCHANGED others

\* check_pcrs with the default policy, no data and no logs
PcrsDefault(t) == PcrsWith(t, {NoArgs})

NextRace ==
    \E t \in Threads :
        \/ CallUnserialized(t)
        \/ CheckQuote(t)
        \/ Timing(t)
        \/ Store(t)
        \/ PcrsDefault(t)
        \/ Return(t)

SpecRace == Init /\ [][NextRace]_vars


\* C26: when the caller does not serialize the check_quote calls for one
\* agent, the stored clock can regress, and it regresses only in the write
\* of a call whose read of the stored clock state is stale (another call
\* wrote between this call's read and its write), which serialized calls
\* exclude.  The witness is the interleaving itself: both calls read the
\* same previous state, both quotes pass the clock check, and the stored
\* clock state ends at the ClockInfo with the lower clock.
C26_RegressOnlyWhenRead_Stale ==
    [][stored'.clock < stored.clock =>
          \E t \in Threads :
              /\ pc[t] = "store" /\ pc'[t] = "pcrs"
              /\ prev[t] # stored]_vars

C26_Witness ==
    \E t \in Threads : \E u \in Threads \ {t} :
        /\ PassedClock(t) /\ PassedClock(u)
        /\ prev[t] = prev[u]
        /\ timing[t].cur = {Current(t)} /\ timing[u].cur = {Current(u)}
        /\ Current(t).clock < Current(u).clock
        /\ stored = Current(t)

=============================================================================
